---- MODULE Spec2Model ----
(***************************************************************************)
(* Emergency orchestration engine of medconnect                            *)
(* (src/backend/emergency_engine.py) as a state machine.                   *)
(*                                                                         *)
(* The two JSON files the engine keeps are the state: active_emergencies   *)
(* (a dict patient_id -> event) and emergency_audit (a list of entries).   *)
(* Python dicts are functions whose DOMAIN is the set of keys present, so  *)
(* "key in d", d.get(key) and d[key] = v translate directly.  None and the *)
(* empty dict are both the empty function <<>> where the code only tests   *)
(* truthiness.  _now_iso() stamps are the opaque value Stamp: no branch of *)
(* the engine reads a clock value.                                         *)
(***************************************************************************)
EXTENDS Integers, Sequences, FiniteSets, TLC

VARIABLES
    active,     \* active_emergencies.json: dict patient_id -> event
    ledger,     \* emergency_audit.json: list of audit entries
    nextId,     \* the next event_id uuid.uuid4() hands out
    events,     \* history: event_id -> last state of every event ever created
    performed,  \* history: event_id -> the messages and calls sent, once and again
    ret,        \* the most recent call and how it ended
    pc,         \* request thread -> the place its handler has reached
    frame,      \* request thread -> the handler's local variables
    ticks,      \* the clock utcnow() reads, in ticks since the start
    store,      \* vitals_store.json: patient_id -> metrics with raw readings
    calc        \* a call of a vitals function: its name, arguments and result

vars == <<active, ledger, nextId, events, performed, ret, pc, frame, ticks, store, calc>>

(***************************************************************************)
(* Bounds of the model.                                                    *)
(***************************************************************************)
\* Events created in one behaviour (uuid4 never runs out).
MaxEvents == 2
\* Entries the audit file keeps.  The source keeps 2000
\* (emergency_engine.py:148); the model keeps fewer so that a behaviour
\* reaches the point where old entries are dropped.
AuditKeep == 3
\* Request threads that run handlers at the same time.  run_server.py:25
\* starts waitress with 4; two already interleave.
NumThreads == 2
\* Events created in one behaviour of SpecEscalation.
EscalationEvents == 1
\* Ticks of the clock in one behaviour of SpecIngest, and the seconds in a
\* tick: the confirmation deadline of an event passes within two ticks.
MaxTicks == 2
TickSeconds == 20
\* Events created in one behaviour of SpecIngest.
IngestEvents == 1
\* Tenths below the lowest and above the highest cut point of a metric that
\* check_threshold is called with.
Margin == 10
\* Readings in the window analyze_trend is called with.
MaxReadings == 4
\* Readings in the history detect_outlier is called with.
MaxHistory == 5
\* Threshold results, and trends, generate_risk_flags is called with.
MaxResults == 2

(***************************************************************************)
(* Input domains.                                                          *)
(***************************************************************************)
Patients == {"pA"}
\* The patient ids lifecycle requests name: a patient with events, and one
\* for whom no event was ever triggered.
Callers == Patients \cup {"pB"}
Threads == 1..NumThreads
NoKey == 0
ClientKeys == {101}
EventIds == 1..MaxEvents

None == "None"

\* Clock readings: minute-of-day m, second s and microsecond us of
\* datetime.utcnow().  Instants covers a whole second, a fraction, and a
\* second from which 30 s later is in the next minute.
Instant(m, s, us) == [m |-> m, s |-> s, us |-> us]
Instants == {Instant(0, 0, 0), Instant(0, 12, 5), Instant(7, 45, 0), Instant(7, 59, 5)}

\* datetime.isoformat(): the fields in order, the microseconds left out
\* when they are zero.
isoformat(dt) == IF dt.us = 0 THEN <<dt.m, dt.s>> ELSE <<dt.m, dt.s, dt.us>>
\* datetime.fromisoformat(): the fields read back, no fraction meaning 0.
fromisoformat(txt) == Instant(txt[1], txt[2], IF Len(txt) = 3 THEN txt[3] ELSE 0)
\* dt + timedelta(seconds = n)
PlusSeconds(dt, n) == Instant(dt.m + ((dt.s + n) \div 60), (dt.s + n) % 60, dt.us)

\* _now_iso() at clock reading dt: isoformat() + "Z"
_now_iso(dt) == [text |-> isoformat(dt), suffix |-> "Z"]
\* As _add_seconds, with the fraction of the second dropped.
_add_seconds_FractionLost(iso_str, seconds) ==
    [text |-> isoformat(PlusSeconds(Instant(iso_str.text[1], iso_str.text[2], 0), seconds)),
     suffix |-> "Z"]

\* _add_seconds: rstrip("Z"), parse, add, format, append "Z"
_add_seconds(iso_str, seconds) ==
    [text |-> isoformat(PlusSeconds(fromisoformat(iso_str.text), seconds)), suffix |-> "Z"]

\* The stamp of every call whose time of day no property reads.
Stamp == _now_iso(Instant(0, 12, 5))

\* location as the JSON body gives it: absent, well formed, without the
\* lat/lon keys, or with lat/lon given as strings.  A value is its type.
NoLocation == <<>>
GoodLocation == [lat |-> "float", lon |-> "float"]
NoLatLocation == [accuracy_m |-> "float"]
StrLocation == [lat |-> "str", lon |-> "str"]
Locations == {NoLocation, GoodLocation, NoLatLocation, StrLocation}

Phones == {None, "unknown", "+911234567890"}
Actors == {"PATIENT"}
TriggerSources == {"MANUAL_SOS"}

TerminalStatuses == {"RESOLVED", "CANCELLED", "CARETAKER_OVERRIDE"}
NonTerminalStatuses == {"PENDING_CONFIRMATION", "ESCALATED"}
ActionNames == <<"CARETAKER_NOTIFIED", "DIAL_108", "GPS_SHARED", "VOICE_AGENT_DISPATCHED">>

(***************************************************************************)
(* Python helpers.                                                         *)
(***************************************************************************)
\* d[k] = v
Put(d, k, v) == [f \in DOMAIN d \cup {k} |-> IF f = k THEN v ELSE d[f]]
\* d.get(k, default)
Get(d, k, default) == IF k \in DOMAIN d THEN d[k] ELSE default
\* lst[-n:]
LastN(lst, n) == IF Len(lst) <= n THEN lst ELSE SubSeq(lst, Len(lst) - n + 1, Len(lst))
\* bool(x) of a dict or None
Truthy(d) == DOMAIN d # {}

(***************************************************************************)
(* Audit log.                                                              *)
(***************************************************************************)
\* _append_audit: load, append, save the last AuditKeep entries.
\* lst[start:] of Python: a negative start counts from the end.
SliceFrom(lst, start) ==
    LET from == IF start < 0
                THEN (IF Len(lst) + start > 0 THEN Len(lst) + start ELSE 0)
                ELSE (IF start < Len(lst) THEN start ELSE Len(lst))
    IN SubSeq(lst, from + 1, Len(lst))

\* get_audit_log, lines 151-156: the entries of the patient, or all when
\* no patient is given, cut with logs[-limit:].
get_audit_log(logs, patient_id, limit) ==
    SliceFrom(IF patient_id # None
              THEN SelectSeq(logs, LAMBDA e : e.patient_id = patient_id)
              ELSE logs,
              -limit)

\* As _append_audit, with the new entry put in front of the loaded list.
_append_audit_Prepends(logs, entry) ==
    LastN(<<Put(entry, "logged_at", Stamp)>> \o logs, AuditKeep)

_append_audit(logs, entry) == LastN(Append(logs, Put(entry, "logged_at", Stamp)), AuditKeep)

\* The scan of trigger_emergency's idempotency check: the index of the
\* most recent entry whose idempotency_key is the given key, 0 when no
\* entry has it.  Entries of the other event types have no such field.
\* As IdempotencyHit, with the key compared to the entry's event_id.
IdempotencyHit_ByEventId(logs, key) ==
    LET hits == {i \in 1..Len(logs) : logs[i].event_id = key}
    IN IF hits = {} THEN 0 ELSE CHOOSE i \in hits : \A j \in hits : j <= i

IdempotencyHit(logs, key) ==
    LET hits == {i \in 1..Len(logs) : Get(logs[i], "idempotency_key", NoKey) = key}
    IN IF hits = {} THEN 0 ELSE CHOOSE i \in hits : \A j \in hits : j <= i

(***************************************************************************)
(* Active emergency state.                                                 *)
(***************************************************************************)
\* As has_active_emergency, with only a pending event counted as active.
has_active_emergency_PendingOnly(act, p) ==
    p \in DOMAIN act /\ act[p].status = "PENDING_CONFIRMATION"

\* get_active_emergency(p) is act[p] when p \in DOMAIN act, None otherwise.
has_active_emergency(act, p) ==
    p \in DOMAIN act /\ act[p].status \notin {"RESOLVED", "CANCELLED", "CARETAKER_OVERRIDE"}

(***************************************************************************)
(* What a call leaves behind: the two files as it leaves them, how it      *)
(* ended (tag), the dict it returned (<<>> when it raised), and the        *)
(* messages and calls that went out while it ran.                          *)
(***************************************************************************)
Outcome(act, logs, tag, value, sent) ==
    [active |-> act, ledger |-> logs, tag |-> tag, value |-> value, sent |-> sent]

(***************************************************************************)
(* trigger_emergency                                                       *)
(***************************************************************************)
\* The event dict built at lines 216-232.
NewEvent(id, now, p, src, loc, phone, key) ==
    [event_id |-> id,
     idempotency_key |-> IF key # NoKey THEN key ELSE id,
     patient_id |-> p,
     trigger_source |-> src,
     status |-> "PENDING_CONFIRMATION",
     triggered_at |-> now,
     confirmation_deadline |-> _add_seconds(now, 30),
     location |-> loc,
     caretaker_phone |-> phone,
     actions_taken |-> <<>>,
     resolved_at |-> None,
     resolved_by |-> None]

TriggeredEntry(event) ==
    [event_type |-> "EMERGENCY_TRIGGERED",
     event_id |-> event.event_id,
     patient_id |-> event.patient_id,
     trigger_source |-> event.trigger_source,
     idempotency_key |-> event.idempotency_key]

\* As trigger_emergency, with the suppressed trigger written to the audit log.
trigger_emergency_AuditsSuppressed(act, logs, id, now, p, src, loc, phone, key) ==
    IF key # NoKey /\ IdempotencyHit(logs, key) # 0
    THEN Outcome(act, logs, "_duplicate",
                 Put(logs[IdempotencyHit(logs, key)], "_duplicate", TRUE), {})
    ELSE IF has_active_emergency(act, p)
    THEN Outcome(act, _append_audit(logs, TriggeredEntry(act[p])), "_already_active",
                 Put(act[p], "_already_active", TRUE), {})
    ELSE LET event == NewEvent(id, now, p, src, loc, phone, key)
         IN Outcome(Put(act, p, event), _append_audit(logs, TriggeredEntry(event)),
                    "created", event, {})

\* lines 199-248, on the files as act and logs, with id the uuid4 drawn and
\* now the stamp _now_iso() returns at line 214
trigger_emergency(act, logs, id, now, p, src, loc, phone, key) ==
    IF key # NoKey /\ IdempotencyHit(logs, key) # 0
    THEN \* lines 200-205: the logged entry, tagged
         Outcome(act, logs, "_duplicate",
                 Put(logs[IdempotencyHit(logs, key)], "_duplicate", TRUE), {})
    ELSE IF has_active_emergency(act, p)
    THEN \* lines 208-211: the existing event, tagged
         Outcome(act, logs, "_already_active", Put(act[p], "_already_active", TRUE), {})
    ELSE \* lines 213-248
         LET event == NewEvent(id, now, p, src, loc, phone, key)
         IN Outcome(Put(act, p, event), _append_audit(logs, TriggeredEntry(event)),
                    "created", event, {})

(***************************************************************************)
(* Escalation actions.  Each returns [raised, ok]: whether the Python      *)
(* function raised, and otherwise the boolean it returned.  twilio is the  *)
(* outcome of the gateway call when one is made (a simulated send, with no *)
(* gateway configured, counts as TRUE).                                    *)
(***************************************************************************)
Returned(ok) == [raised |-> FALSE, ok |-> ok]
Raised == [raised |-> TRUE, ok |-> FALSE]

ValidPhone(phone) == phone # None /\ phone # "unknown"

\* lines 403-438: location['lat'], location['lon'] are read for the message
\* when a location is present.
_notify_caretaker(event, twilio) ==
    IF ~ValidPhone(event.caretaker_phone) THEN Returned(FALSE)
    ELSE IF Truthy(event.location) /\ ~({"lat", "lon"} \subseteq DOMAIN event.location)
    THEN Raised
    ELSE Returned(twilio)

\* lines 441-470
_dial_ambulance(event, twilio) ==
    IF ~ValidPhone(event.caretaker_phone) THEN Returned(FALSE) ELSE Returned(twilio)

\* lines 473-480: location.get never raises on a dict.
_share_gps(event) ==
    IF ~Truthy(event.location) THEN Returned(FALSE) ELSE Returned(TRUE)

\* lines 483-513: f"{location['lat']:.4f}" needs the keys and numbers.
_build_voice_agent_packet(event) ==
    IF Truthy(event.location)
       /\ ~(/\ {"lat", "lon"} \subseteq DOMAIN event.location
            /\ event.location.lat = "float"
            /\ event.location.lon = "float")
    THEN Raised
    ELSE Returned(TRUE)

\* The records appended to actions_taken (lines 282-313).
NotifiedRecord(ok) ==
    [action |-> "CARETAKER_NOTIFIED", channel |-> <<"sms", "push", "in_app">>,
     success |-> ok, timestamp |-> Stamp]
DialRecord(ok) ==
    [action |-> "DIAL_108", number |-> "108", success |-> ok, timestamp |-> Stamp]
GpsRecord(event, ok) ==
    [action |-> "GPS_SHARED", location |-> event.location, success |-> ok,
     timestamp |-> Stamp]
VoiceRecord(event) ==
    [action |-> "VOICE_AGENT_DISPATCHED", packet |-> [event_id |-> event.event_id],
     timestamp |-> Stamp]

\* Lines 270-313 on the event loaded from the file: the event the handler
\* holds when it reaches the persist step, or the point where it raised,
\* with the actions that left the process on the way: the message and the
\* call handed to the gateway (_share_gps and _build_voice_agent_packet
\* only compute).
EscalationRun(event, location, tw1, tw2) ==
    LET e0 == Put(Put(event, "status", "ESCALATED"), "escalated_at", Stamp)
        e1 == IF Truthy(location) THEN Put(e0, "location", location) ELSE e0
        n == _notify_caretaker(e1, tw1)
        d == _dial_ambulance(e1, tw2)
        g == _share_gps(e1)
        v == _build_voice_agent_packet(e1)
        sentN == IF n.ok THEN {"CARETAKER_NOTIFIED"} ELSE {}
        sentD == IF d.ok THEN {"DIAL_108"} ELSE {}
        a1 == Append(e1.actions_taken, NotifiedRecord(n.ok))
        a2 == Append(a1, DialRecord(d.ok))
        a3 == Append(a2, GpsRecord(e1, g.ok))
        a4 == Append(a3, VoiceRecord(e1))
    IN IF n.raised THEN [raised |-> TRUE, event |-> e1, sent |-> {}]
       ELSE IF v.raised
       THEN [raised |-> TRUE, event |-> Put(e1, "actions_taken", a3),
             sent |-> sentN \cup sentD]
       ELSE [raised |-> FALSE, event |-> Put(e1, "actions_taken", a4),
             sent |-> sentN \cup sentD]

EscalatedEntry(event) ==
    [event_type |-> "EMERGENCY_ESCALATED",
     event_id |-> event.event_id,
     patient_id |-> event.patient_id,
     actions |-> [i \in 1..Len(event.actions_taken) |-> event.actions_taken[i].action]]

(***************************************************************************)
(* escalate_emergency                                                      *)
(***************************************************************************)
\* As escalate_emergency, without the status check of lines 267-268.
escalate_emergency_Unguarded(act, logs, p, location, tw1, tw2) ==
    IF p \notin DOMAIN act
    THEN Outcome(act, logs, "ValueError", <<>>, {})
    ELSE LET run == EscalationRun(act[p], location, tw1, tw2)
         IN IF run.raised
            THEN Outcome(act, logs, "raised", <<>>, run.sent)
            ELSE Outcome(Put(act, p, run.event),
                         _append_audit(logs, EscalatedEntry(run.event)),
                         "escalated", run.event, run.sent)

escalate_emergency(act, logs, p, location, tw1, tw2) ==
    IF p \notin DOMAIN act
    THEN \* lines 264-265
         Outcome(act, logs, "ValueError", <<>>, {})
    ELSE IF act[p].status # "PENDING_CONFIRMATION"
    THEN \* lines 267-268
         Outcome(act, logs, "unchanged", act[p], {})
    ELSE LET run == EscalationRun(act[p], location, tw1, tw2)
         IN IF run.raised
            THEN \* the exception leaves the handler before line 316
                 Outcome(act, logs, "raised", <<>>, run.sent)
            ELSE \* lines 315-327
                 Outcome(Put(act, p, run.event),
                         _append_audit(logs, EscalatedEntry(run.event)),
                         "escalated", run.event, run.sent)

(***************************************************************************)
(* cancel_emergency, resolve_emergency, caretaker_override                 *)
(***************************************************************************)
\* lines 337-339
CancelledEvent(event, cancelled_by) ==
    Put(Put(Put(event, "status", "CANCELLED"), "resolved_at", Stamp), "resolved_by", cancelled_by)

\* lines 361-363
ResolvedEvent(event, resolved_by) ==
    Put(Put(Put(event, "status", "RESOLVED"), "resolved_at", Stamp), "resolved_by", resolved_by)

\* lines 385-387
OverriddenEvent(event, caretaker_id) ==
    Put(Put(Put(event, "status", "CARETAKER_OVERRIDE"), "override_by", caretaker_id),
        "override_at", Stamp)

CancelledEntry(event, cancelled_by) ==
    [event_type |-> "EMERGENCY_CANCELLED", event_id |-> event.event_id,
     patient_id |-> event.patient_id, cancelled_by |-> cancelled_by]

ResolvedEntry(event, resolved_by) ==
    [event_type |-> "EMERGENCY_RESOLVED", event_id |-> event.event_id,
     patient_id |-> event.patient_id, resolved_by |-> resolved_by]

OverrideEntry(event, caretaker_id) ==
    [event_type |-> "CARETAKER_OVERRIDE", event_id |-> event.event_id,
     patient_id |-> event.patient_id, caretaker_id |-> caretaker_id]

\* lines 330-351
\* As cancel_emergency, without the audit entry of lines 344-349.
cancel_emergency_Unlogged(act, logs, p, cancelled_by) ==
    IF p \notin DOMAIN act
    THEN Outcome(act, logs, "ValueError", <<>>, {})
    ELSE LET event == CancelledEvent(act[p], cancelled_by)
         IN Outcome(Put(act, p, event), logs, "ok", event, {})

cancel_emergency(act, logs, p, cancelled_by) ==
    IF p \notin DOMAIN act
    THEN Outcome(act, logs, "ValueError", <<>>, {})
    ELSE LET event == CancelledEvent(act[p], cancelled_by)
         IN Outcome(Put(act, p, event),
                    _append_audit(logs, CancelledEntry(event, cancelled_by)),
                    "ok", event, {})

\* As resolve_emergency, with the failed call written to the audit log.
resolve_emergency_AuditsFailure(act, logs, p, resolved_by) ==
    IF p \notin DOMAIN act
    THEN Outcome(act, _append_audit(logs, [event_type |-> "EMERGENCY_RESOLVED",
                                           event_id |-> NoKey, patient_id |-> p,
                                           resolved_by |-> resolved_by]),
                 "ValueError", <<>>, {})
    ELSE LET event == ResolvedEvent(act[p], resolved_by)
         IN Outcome(Put(act, p, event),
                    _append_audit(logs, ResolvedEntry(event, resolved_by)),
                    "ok", event, {})

\* lines 354-375
resolve_emergency(act, logs, p, resolved_by) ==
    IF p \notin DOMAIN act
    THEN Outcome(act, logs, "ValueError", <<>>, {})
    ELSE LET event == ResolvedEvent(act[p], resolved_by)
         IN Outcome(Put(act, p, event),
                    _append_audit(logs, ResolvedEntry(event, resolved_by)),
                    "ok", event, {})

\* lines 378-398
caretaker_override(act, logs, p, caretaker_id) ==
    IF p \notin DOMAIN act
    THEN Outcome(act, logs, "ValueError", <<>>, {})
    ELSE LET event == OverriddenEvent(act[p], caretaker_id)
         IN Outcome(Put(act, p, event),
                    _append_audit(logs, OverrideEntry(event, caretaker_id)),
                    "ok", event, {})

(***************************************************************************)
(* History kept beside the files.                                          *)
(***************************************************************************)
\* The part of an event the history keeps.
Snapshot(event) ==
    [patient_id |-> event.patient_id,
     status |-> event.status,
     idempotency_key |-> event.idempotency_key]

\* No action has gone out for a new event.
NoActions == [once |-> {}, again |-> {}]

\* performed, after the actions of sent went out for event id: those that
\* had gone out before have now gone out again.
CountSent(perf, id, sent) ==
    Put(perf, id, [once |-> perf[id].once \cup sent,
                   again |-> perf[id].again \cup (perf[id].once \cap sent)])

\* One call of handler op for patient p, ended as out, takes effect.
Handle(op, p, out) ==
    /\ active' = out.active
    /\ ledger' = out.ledger
    /\ ret' = [op |-> op, tag |-> out.tag]
    /\ nextId' = IF out.tag = "created" THEN nextId + 1 ELSE nextId
    /\ events' = IF out.tag \in {"created", "escalated", "ok"}
                 THEN Put(events, out.value.event_id, Snapshot(out.value))
                 ELSE events
    /\ performed' = IF out.tag = "created" THEN Put(performed, out.value.event_id, NoActions)
                    ELSE IF out.sent # {} THEN CountSent(performed, active[p].event_id, out.sent)
                    ELSE performed
    /\ UNCHANGED <<pc, frame, ticks, store, calc>>

\* The locals of a handler that is not running.
NoFrame == [patient_id |-> None, key |-> NoKey, event |-> <<>>, active |-> <<>>, logs |-> <<>>]

(***************************************************************************)
(* The engine with one request handled at a time.                          *)
(***************************************************************************)
\* Both files absent: _load_json returns the defaults {} and [].
\* No vitals function has been called.
NoCall == [fn |-> "none", arg |-> <<>>, out |-> None, done |-> FALSE]

Init ==
    /\ active = <<>>
    /\ ledger = <<>>
    /\ nextId = 1
    /\ events = <<>>
    /\ performed = <<>>
    /\ ret = [op |-> "none", tag |-> "none"]
    /\ pc = [t \in Threads |-> "idle"]
    /\ frame = [t \in Threads |-> NoFrame]
    /\ ticks = 0
    /\ store = <<>>
    /\ calc = NoCall

\* The keys a client can send: none, its own, or an event_id it was given
\* (the idempotency_key of an event created without one).
KnownKeys == {NoKey} \cup ClientKeys \cup DOMAIN events

\* Requests that carry patient and key and leave every optional field out.
Trigger ==
    \E p \in Patients, key \in {NoKey} \cup ClientKeys :
        LET out == trigger_emergency(active, ledger, nextId, Stamp, p, "MANUAL_SOS",
                                     NoLocation, None, key)
        IN /\ out.tag = "created" => nextId <= MaxEvents
           /\ Handle("trigger_emergency", p, out)

Escalate ==
    \E p \in Callers :
        Handle("escalate_emergency", p,
               escalate_emergency(active, ledger, p, NoLocation, TRUE, TRUE))

Cancel ==
    \E p \in Callers, by \in Actors :
        Handle("cancel_emergency", p, cancel_emergency(active, ledger, p, by))

Resolve ==
    \E p \in Callers, by \in Actors :
        Handle("resolve_emergency", p, resolve_emergency(active, ledger, p, by))

Override ==
    \E p \in Callers :
        Handle("caretaker_override", p, caretaker_override(active, ledger, p, "unknown"))

Next == Trigger \/ Escalate \/ Cancel \/ Resolve \/ Override

Spec == Init /\ [][Next]_vars

(***************************************************************************)
(* The engine with one request handled at a time, the requests carrying    *)
(* every shape of location and caretaker phone, with every gateway         *)
(* outcome.                                                                *)
(***************************************************************************)
TriggerWith ==
    \E p \in Patients, loc \in Locations, phone \in Phones :
        LET out == trigger_emergency(active, ledger, nextId, Stamp, p, "MANUAL_SOS",
                                     loc, phone, NoKey)
        IN /\ out.tag = "created" => nextId <= EscalationEvents
           /\ Handle("trigger_emergency", p, out)

EscalateWith ==
    \E p \in Callers, loc \in Locations, tw1 \in BOOLEAN, tw2 \in BOOLEAN :
        Handle("escalate_emergency", p,
               escalate_emergency(active, ledger, p, loc, tw1, tw2))

NextEscalation == TriggerWith \/ EscalateWith \/ Cancel \/ Resolve \/ Override

SpecEscalation == Init /\ [][NextEscalation]_vars

(***************************************************************************)
(* The engine whose process may die inside escalate_emergency and restart  *)
(* from the files.  Locations are absent or well formed here, so that no   *)
(* escalation raises.                                                      *)
(***************************************************************************)
SoundLocations == {NoLocation, GoodLocation}

\* Where the process dies: before the first action (lines 270-277), after
\* the caretaker message (line 280), after the call (line 290), while
\* _save_active rewrites the file (lines 131-132), or after it (line 317)
\* and before the audit entry.
CrashPoints == {"start", "notified", "dialled", "writing", "saved"}

\* escalate_emergency on the pending event of p, cut at a crash point: the
\* files the restarted process finds and the actions that had gone out.  A
\* file cut while it is rewritten does not parse, and _load_json then
\* gives the default, the empty table.
escalate_emergency_crash(act, logs, p, location, tw1, tw2, at) ==
    LET run == EscalationRun(act[p], location, tw1, tw2)
        held == IF Truthy(location) THEN Put(act[p], "location", location) ELSE act[p]
        sentN == IF _notify_caretaker(held, tw1).ok THEN {"CARETAKER_NOTIFIED"} ELSE {}
    IN IF at = "start" THEN Outcome(act, logs, "crashed", <<>>, {})
       ELSE IF at = "notified" THEN Outcome(act, logs, "crashed", <<>>, sentN)
       ELSE IF at = "dialled" THEN Outcome(act, logs, "crashed", <<>>, run.sent)
       ELSE IF at = "writing" THEN Outcome(<<>>, logs, "crashed", <<>>, run.sent)
       ELSE Outcome(Put(act, p, run.event), logs, "crashed", <<>>, run.sent)

TriggerSound ==
    \E p \in Patients, loc \in SoundLocations, phone \in Phones :
        LET out == trigger_emergency(active, ledger, nextId, Stamp, p, "MANUAL_SOS",
                                     loc, phone, NoKey)
        IN /\ out.tag = "created" => nextId <= EscalationEvents
           /\ Handle("trigger_emergency", p, out)

EscalateSound ==
    \E p \in Callers, loc \in SoundLocations, tw1 \in BOOLEAN, tw2 \in BOOLEAN :
        Handle("escalate_emergency", p,
               escalate_emergency(active, ledger, p, loc, tw1, tw2))

EscalateCrash ==
    \E p \in Patients, loc \in SoundLocations, tw1 \in BOOLEAN, tw2 \in BOOLEAN,
       at \in CrashPoints :
        /\ p \in DOMAIN active
        /\ active[p].status = "PENDING_CONFIRMATION"
        /\ Handle("escalate_emergency", p,
                  escalate_emergency_crash(active, ledger, p, loc, tw1, tw2, at))

NextCrash == TriggerSound \/ EscalateSound \/ EscalateCrash \/ Cancel \/ Resolve \/ Override

SpecCrash == Init /\ [][NextCrash]_vars

(***************************************************************************)
(* trigger_emergency run by several request threads at once.  The server   *)
(* hands each request to a thread of its pool and the engine takes no lock *)
(* (submit_vitals and emergency_trigger call it directly), so the calls    *)
(* interleave between any two file accesses.  One step is one read or one  *)
(* write of a file together with the computation that follows it.          *)
(***************************************************************************)
Goto(t, label) == pc' = [pc EXCEPT ![t] = label]

Return(t, tag) ==
    /\ ret' = [op |-> "trigger_emergency", tag |-> tag]
    /\ pc' = [pc EXCEPT ![t] = "idle"]
    /\ frame' = [frame EXCEPT ![t] = NoFrame]

\* A request arrives and its handler starts.
Receive(t) ==
    /\ pc[t] = "idle"
    /\ \E p \in Patients, key \in {NoKey} \cup ClientKeys :
          frame' = [frame EXCEPT ![t] = [NoFrame EXCEPT !.patient_id = p, !.key = key]]
    /\ Goto(t, "idempotency")
    /\ UNCHANGED <<active, ledger, nextId, events, performed, ret, ticks, store, calc>>

\* lines 200-205: read the audit file and scan it.
IdempotencyCheck(t) ==
    /\ pc[t] = "idempotency"
    /\ IF frame[t].key # NoKey /\ IdempotencyHit(ledger, frame[t].key) # 0
       THEN Return(t, "_duplicate")
       ELSE Goto(t, "guard") /\ UNCHANGED <<ret, frame>>
    /\ UNCHANGED <<active, ledger, nextId, events, performed, ticks, store, calc>>

\* line 208: has_active_emergency reads the active file.
ActiveGuard(t) ==
    /\ pc[t] = "guard"
    /\ IF has_active_emergency(active, frame[t].patient_id)
       THEN Goto(t, "existing")
       ELSE Goto(t, "create")
    /\ UNCHANGED <<active, ledger, nextId, events, performed, ret, frame, ticks, store, calc>>

\* lines 209-211: get_active_emergency reads the active file again.
ReturnExisting(t) ==
    /\ pc[t] = "existing"
    /\ Return(t, "_already_active")
    /\ UNCHANGED <<active, ledger, nextId, events, performed, ticks, store, calc>>

\* lines 213-235: draw the uuid, build the event, read the active file.
CreateAndLoad(t) ==
    /\ pc[t] = "create"
    /\ nextId <= MaxEvents
    /\ frame' = [frame EXCEPT ![t].event =
                     NewEvent(nextId, Stamp, frame[t].patient_id, "MANUAL_SOS", NoLocation, None,
                              frame[t].key),
                 ![t].active = active]
    /\ nextId' = nextId + 1
    /\ Goto(t, "save")
    /\ UNCHANGED <<active, ledger, events, performed, ret, ticks, store, calc>>

\* lines 236-237: set the entry in the dict read before and write the file.
SaveActive(t) ==
    /\ pc[t] = "save"
    /\ active' = Put(frame[t].active, frame[t].patient_id, frame[t].event)
    /\ events' = Put(events, frame[t].event.event_id, Snapshot(frame[t].event))
    /\ performed' = Put(performed, frame[t].event.event_id, NoActions)
    /\ Goto(t, "audit")
    /\ UNCHANGED <<ledger, nextId, ret, frame, ticks, store, calc>>

\* line 145, reached from line 239: _append_audit reads the audit file.
LoadAudit(t) ==
    /\ pc[t] = "audit"
    /\ frame' = [frame EXCEPT ![t].logs = ledger]
    /\ Goto(t, "append")
    /\ UNCHANGED <<active, ledger, nextId, events, performed, ret, ticks, store, calc>>

\* lines 146-148, then 247-248: append to the list read before, write the
\* file, return the event.
SaveAudit(t) ==
    /\ pc[t] = "append"
    /\ ledger' = _append_audit(frame[t].logs, TriggeredEntry(frame[t].event))
    /\ Return(t, "created")
    /\ UNCHANGED <<active, nextId, events, performed, ticks, store, calc>>

NextConcurrent ==
    \E t \in Threads :
        \/ Receive(t)
        \/ IdempotencyCheck(t)
        \/ ActiveGuard(t)
        \/ ReturnExisting(t)
        \/ CreateAndLoad(t)
        \/ SaveActive(t)
        \/ LoadAudit(t)
        \/ SaveAudit(t)

SpecConcurrent == Init /\ [][NextConcurrent]_vars

(***************************************************************************)
(* The same threads, serving requests of two patients.  The requests carry *)
(* no idempotency key.                                                     *)
(***************************************************************************)
ReceiveFrom(t) ==
    /\ pc[t] = "idle"
    /\ \E p \in Callers :
          frame' = [frame EXCEPT ![t] = [NoFrame EXCEPT !.patient_id = p, !.key = NoKey]]
    /\ Goto(t, "idempotency")
    /\ UNCHANGED <<active, ledger, nextId, events, performed, ret, ticks, store, calc>>

NextParallel ==
    \E t \in Threads :
        \/ ReceiveFrom(t)
        \/ IdempotencyCheck(t)
        \/ ActiveGuard(t)
        \/ ReturnExisting(t)
        \/ CreateAndLoad(t)
        \/ SaveActive(t)
        \/ LoadAudit(t)
        \/ SaveAudit(t)

SpecParallel == Init /\ [][NextParallel]_vars

(***************************************************************************)
(* Vitals ingestion (app.py, vitals_engine.py).  Values are in tenths of   *)
(* the unit, so that the bands of temperature_f are integers too.          *)
(***************************************************************************)
Band(cl, wl, nl, nh, wh, ch) ==
    [critical_low |-> cl, warning_low |-> wl, normal_low |-> nl,
     normal_high |-> nh, warning_high |-> wh, critical_high |-> ch]

THRESHOLDS ==
    [heart_rate       |-> Band(400, 500, 600, 1000, 1200, 1500),
     systolic_bp      |-> Band(700, 900, 900, 1290, 1390, 1800),
     diastolic_bp     |-> Band(400, 600, 600, 890, 890, 1200),
     spo2             |-> Band(880, 920, 950, 1000, 1000, 1000),
     temperature_f    |-> Band(950, 968, 970, 990, 1004, 1030),
     respiratory_rate |-> Band(80, 100, 120, 200, 240, 300)]

VITAL_KEYS ==
    <<"heart_rate", "systolic_bp", "diastolic_bp", "spo2", "temperature_f",
      "respiratory_rate">>

\* As Severity, with the warning bounds tested before the critical ones.
Severity_WarningFirst(t, value) ==
    IF value <= t.warning_low THEN "warning"
    ELSE IF value <= t.critical_low THEN "critical"
    ELSE IF value >= t.warning_high THEN "warning"
    ELSE IF value >= t.critical_high THEN "critical"
    ELSE "normal"

\* The severity check_threshold gives a value of a tracked metric.
Severity(t, value) ==
    IF value <= t.critical_low THEN "critical"
    ELSE IF value <= t.warning_low THEN "warning"
    ELSE IF value >= t.critical_high THEN "critical"
    ELSE IF value >= t.warning_high THEN "warning"
    ELSE "normal"

\* check_threshold: None for a metric that is not tracked.
check_threshold(metric, value) ==
    IF metric \notin DOMAIN THRESHOLDS THEN None
    ELSE [metric |-> metric, value |-> value,
          severity |-> Severity(THRESHOLDS[metric], value),
          auto_emergency |-> (\/ value <= THRESHOLDS[metric].critical_low
                              \/ /\ value > THRESHOLDS[metric].warning_low
                                 /\ value >= THRESHOLDS[metric].critical_high)]

\* The metrics of a reading in the order its dict was filled.
MetricsOf(vitals) == SelectSeq(VITAL_KEYS, LAMBDA k : k \in DOMAIN vitals)

\* check_all_thresholds: one result per tracked metric, in dict order.
check_all_thresholds(vitals) ==
    [i \in 1..Len(MetricsOf(vitals)) |->
        check_threshold(MetricsOf(vitals)[i], vitals[MetricsOf(vitals)[i]])]

\* Readings a device submits: no tracked metric, a normal heart rate, or a
\* heart rate and an SpO2 that are both critical.
Readings == {<<>>, [heart_rate |-> 800], [heart_rate |-> 300, spo2 |-> 850]}

\* The timestamp strings readings carry, and the patient ids, as numbers.
ReadingStamps == {1, 2}
PatientCode == [pA |-> 1, pB |-> 2]
\* f"auto_{patient_id}_{timestamp}": distinct for distinct patients and
\* timestamps of the model, and distinct from the keys clients send.
AutoKey(p, timestamp) == 1000 + 10 * PatientCode[p] + timestamp

\* As submit_vitals, without the has_active_emergency test of line 566.
submit_vitals_IgnoresActive(act, logs, st, id, now, p, timestamp, current) ==
    IF current = <<>>
    THEN [active |-> act, ledger |-> logs, store |-> st, status |-> "error",
          trigger |-> "none", auto_emergency_triggered |-> FALSE, emergency_event |-> None]
    ELSE LET saved == Put(st, p, Get(st, p, {}) \cup DOMAIN current)
             results == check_all_thresholds(current)
             critical == \E i \in 1..Len(results) : results[i].auto_emergency
         IN IF critical
            THEN LET out == trigger_emergency(act, logs, id, now, p, "VITALS_CRITICAL",
                                              NoLocation, None, AutoKey(p, timestamp))
                 IN [active |-> out.active, ledger |-> out.ledger, store |-> saved,
                     status |-> "ok", trigger |-> out.tag,
                     auto_emergency_triggered |-> TRUE, emergency_event |-> out.value]
            ELSE [active |-> act, ledger |-> logs, store |-> saved, status |-> "ok",
                  trigger |-> "none", auto_emergency_triggered |-> FALSE,
                  emergency_event |-> None]

\* submit_vitals, lines 520-587, for a caller that may write vitals: the
\* files as it leaves them and the response.
submit_vitals(act, logs, st, id, now, p, timestamp, current) ==
    IF current = <<>>
    THEN \* lines 533-534: HTTP 400
         [active |-> act, ledger |-> logs, store |-> st, status |-> "error",
          trigger |-> "none", auto_emergency_triggered |-> FALSE, emergency_event |-> None]
    ELSE LET saved == Put(st, p, Get(st, p, {}) \cup DOMAIN current)
             results == check_all_thresholds(current)
             critical == \E i \in 1..Len(results) : results[i].auto_emergency
         IN IF critical /\ ~has_active_emergency(act, p)
            THEN \* lines 565-573: the first such result triggers, then break
                 LET out == trigger_emergency(act, logs, id, now, p, "VITALS_CRITICAL",
                                              NoLocation, None, AutoKey(p, timestamp))
                 IN [active |-> out.active, ledger |-> out.ledger, store |-> saved,
                     status |-> "ok", trigger |-> out.tag,
                     auto_emergency_triggered |-> TRUE, emergency_event |-> out.value]
            ELSE [active |-> act, ledger |-> logs, store |-> saved, status |-> "ok",
                  trigger |-> "none", auto_emergency_triggered |-> FALSE,
                  emergency_event |-> None]

(***************************************************************************)
(* The engine behind the vitals route, with a clock: readings, manual      *)
(* triggers and lifecycle calls arrive one at a time while time passes.    *)
(***************************************************************************)
\* Seconds from the start of the day to the clock reading an ISO text gives.
SecondsOf(iso_str) == fromisoformat(iso_str.text).m * 60 + fromisoformat(iso_str.text).s

\* utcnow() after the ticks counted so far.
Now == PlusSeconds(Instant(7, 45, 0), ticks * TickSeconds)

SubmitVitals ==
    \E p \in Patients, timestamp \in ReadingStamps, current \in Readings :
        LET out == submit_vitals(active, ledger, store, nextId, _now_iso(Now), p,
                                 timestamp, current)
        IN /\ out.trigger = "created" => nextId <= IngestEvents
           /\ active' = out.active
           /\ ledger' = out.ledger
           /\ store' = out.store
           /\ ret' = [op |-> "submit_vitals",
                      tag |-> IF out.status = "error" THEN "400"
                              ELSE IF out.auto_emergency_triggered THEN out.trigger
                              ELSE "not_triggered"]
           /\ nextId' = IF out.trigger = "created" THEN nextId + 1 ELSE nextId
           /\ events' = IF out.trigger = "created"
                        THEN Put(events, out.emergency_event.event_id,
                                 Snapshot(out.emergency_event))
                        ELSE events
           /\ performed' = IF out.trigger = "created"
                           THEN Put(performed, out.emergency_event.event_id, NoActions)
                           ELSE performed
           /\ UNCHANGED <<pc, frame, ticks, calc>>

\* emergency_trigger with no optional field, at the present clock reading.
TriggerNow ==
    \E p \in Patients :
        LET out == trigger_emergency(active, ledger, nextId, _now_iso(Now), p,
                                     "MANUAL_SOS", NoLocation, None, NoKey)
        IN /\ out.tag = "created" => nextId <= IngestEvents
           /\ Handle("trigger_emergency", p, out)

\* emergency_status (app.py lines 774-784) reads the active table.
ReadStatus ==
    /\ ret' = [op |-> "emergency_status", tag |-> "read"]
    /\ UNCHANGED <<active, ledger, nextId, events, performed, pc, frame, ticks, store, calc>>

\* A clock whose tick also escalates every pending event whose confirmation
\* deadline has passed, as a confirmation timer would.
Tick_AutoEscalates ==
    LET later == PlusSeconds(Instant(7, 45, 0), (ticks + 1) * TickSeconds)
        due(p) == /\ active[p].status = "PENDING_CONFIRMATION"
                  /\ SecondsOf(active[p].confirmation_deadline) <= later.m * 60 + later.s
    IN /\ ticks < MaxTicks
       /\ ticks' = ticks + 1
       /\ active' = [p \in DOMAIN active |->
                        IF due(p) THEN [active[p] EXCEPT !.status = "ESCALATED"]
                        ELSE active[p]]
       /\ events' = [id \in DOMAIN events |->
                        IF \E p \in DOMAIN active : due(p) /\ active[p].event_id = id
                        THEN [events[id] EXCEPT !.status = "ESCALATED"]
                        ELSE events[id]]
       /\ UNCHANGED <<ledger, nextId, performed, ret, pc, frame, store, calc>>

\* Time passes.  No thread, timer or scheduler of the program runs on it.
Tick ==
    /\ ticks < MaxTicks
    /\ ticks' = ticks + 1
    /\ UNCHANGED <<active, ledger, nextId, events, performed, ret, pc, frame, store, calc>>

NextIngest ==
    \/ SubmitVitals
    \/ TriggerNow
    \/ Escalate
    \/ Cancel
    \/ Resolve
    \/ ReadStatus
    \/ Tick

SpecIngest == Init /\ [][NextIngest]_vars

(***************************************************************************)
(* Trend analysis (vitals_engine.py).  The source computes in binary       *)
(* floating point; the model computes the same expressions on exact        *)
(* fractions of integers, which agree with it on the readings used here.   *)
(***************************************************************************)
Abs(x) == IF x < 0 THEN -x ELSE x

RECURSIVE SumSeq(_)
SumSeq(values) == IF values = <<>> THEN 0 ELSE Head(values) + SumSeq(Tail(values))

\* round(num / den, digits) counted in units of 1 / scale, scale = 10^digits:
\* the nearest such number, the even one of two equally near.
Rounded(num, den, scale) ==
    LET a == IF den > 0 THEN num * scale ELSE -(num * scale)
        b == Abs(den)
        q == a \div b
        r == a - q * b
    IN IF 2 * r < b THEN q
       ELSE IF 2 * r > b THEN q + 1
       ELSE IF q % 2 = 0 THEN q ELSE q + 1

\* lines 273-283 of analyze_trend: the slope as numerator and denominator,
\* and the change over the window in percent as a fraction.
SlopeOf(readings) ==
    LET n == Len(readings)
        sum_x == SumSeq([i \in 1..n |-> i - 1])
        sum_y == SumSeq(readings)
        sum_xy == SumSeq([i \in 1..n |-> (i - 1) * readings[i]])
        sum_x2 == SumSeq([i \in 1..n |-> (i - 1) * (i - 1)])
        denom == n * sum_x2 - sum_x * sum_x
    IN IF denom # 0 THEN [num |-> n * sum_xy - sum_x * sum_y, den |-> denom]
       ELSE [num |-> 0, den |-> 1]

ChangePct(readings) ==
    LET first_val == readings[1]
        last_val == readings[Len(readings)]
    IN IF first_val # 0 THEN [num |-> (last_val - first_val) * 100, den |-> first_val]
       ELSE [num |-> 0, den |-> 1]

\* As analyze_trend, with a change of exactly the threshold not stable.
analyze_trend_StrictStable(metric, readings) ==
    IF Len(readings) < 3
    THEN [metric |-> metric, direction |-> "insufficient_data",
          slope_per_reading |-> 0, change_pct_over_window |-> 0]
    ELSE LET slope == SlopeOf(readings)
             change_pct == ChangePct(readings)
         IN [metric |-> metric,
             direction |-> IF Abs(change_pct.num) < 3 * Abs(change_pct.den) THEN "stable"
                           ELSE IF slope.num * slope.den > 0 THEN "rising"
                           ELSE "falling",
             slope_per_reading |-> Rounded(slope.num, slope.den, 10000),
             change_pct_over_window |-> Rounded(change_pct.num, change_pct.den, 100)]

\* analyze_trend with the default stable_threshold_pct of 3.0.  The slope
\* is returned in ten-thousandths, the change in hundredths of a percent.
analyze_trend(metric, readings) ==
    IF Len(readings) < 3
    THEN \* lines 263-270
         [metric |-> metric, direction |-> "insufficient_data",
          slope_per_reading |-> 0, change_pct_over_window |-> 0]
    ELSE LET slope == SlopeOf(readings)
             change_pct == ChangePct(readings)
         IN [metric |-> metric,
             direction |-> IF Abs(change_pct.num) <= 3 * Abs(change_pct.den) THEN "stable"
                           ELSE IF slope.num * slope.den > 0 THEN "rising"
                           ELSE "falling",
             slope_per_reading |-> Rounded(slope.num, slope.den, 10000),
             change_pct_over_window |-> Rounded(change_pct.num, change_pct.den, 100)]

(***************************************************************************)
(* Outlier detection.  The readings are whole numbers.  With n readings of *)
(* sum S, the mean is S / n and the population variance is                 *)
(* (n * sum of squares - S * S) / n^2, so the z-score (value - mean) /     *)
(* sigma is (n * value - S) / sqrt(n * sum of squares - S * S).  A number  *)
(* num / (den * sqrt(root)) is kept as these three integers; rounding the  *)
(* z-score to three places is left out.                                    *)
(***************************************************************************)
Surd(num, den, root) == [num |-> num, den |-> den, root |-> root]

\* n^2 times the variance of _std, lines 183-185.
ScaledVariance(history) ==
    Len(history) * SumSeq([i \in 1..Len(history) |-> history[i] * history[i]])
        - SumSeq(history) * SumSeq(history)

\* As detect_outlier, flagging only a z-score above the threshold.
detect_outlier_StrictThreshold(new_value, history) ==
    IF Len(history) < 5
    THEN [is_outlier |-> FALSE, z_score |-> Surd(0, 1, 1), deviation_pct |-> 0]
    ELSE LET n == Len(history)
             a == n * new_value - SumSeq(history)
             b == ScaledVariance(history)
         IN IF b = 0
            THEN [is_outlier |-> Abs(a) > n, z_score |-> Surd(Abs(a), n, 1),
                  deviation_pct |-> 0]
            ELSE [is_outlier |-> 4 * a * a > 25 * b,
                  z_score |-> Surd(a, 1, b),
                  deviation_pct |-> IF SumSeq(history) # 0
                                    THEN Rounded(a * 100, SumSeq(history), 100)
                                    ELSE 0]

\* detect_outlier with the default z_threshold of 2.5.
detect_outlier(new_value, history) ==
    IF Len(history) < 5
    THEN \* lines 197-203
         [is_outlier |-> FALSE, z_score |-> Surd(0, 1, 1), deviation_pct |-> 0]
    ELSE LET n == Len(history)
             a == n * new_value - SumSeq(history)
             b == ScaledVariance(history)
         IN IF b = 0
            THEN \* lines 208-216: sigma < 1e-6 for whole numbers is sigma = 0;
                 \* z = abs(new_value - mu), an outlier when z > 1
                 [is_outlier |-> Abs(a) > n, z_score |-> Surd(Abs(a), n, 1),
                  deviation_pct |-> 0]
            ELSE \* lines 218-234: abs(z) >= 2.5, squared and times 4
                 [is_outlier |-> 4 * a * a >= 25 * b,
                  z_score |-> Surd(a, 1, b),
                  deviation_pct |-> IF SumSeq(history) # 0
                                    THEN Rounded(a * 100, SumSeq(history), 100)
                                    ELSE 0]

(***************************************************************************)
(* Risk flags (generate_risk_flags, lines 318-394).  A flag_id, an         *)
(* f-string over fixed words, metric names and severities, is kept as the  *)
(* tuple of its parts; the detail of a flag is kept as the numbers its     *)
(* message is formatted from.                                              *)
(***************************************************************************)
RiskFlag(flag_id, severity, detail) ==
    [flag_id |-> flag_id, severity |-> severity, detail |-> detail]

\* lines 331-342
ThresholdFlags(threshold_results) ==
    LET flagged == SelectSeq(threshold_results,
                             LAMBDA tr : tr.severity \in {"warning", "critical"})
    IN [i \in 1..Len(flagged) |->
           RiskFlag(<<"threshold", flagged[i].metric, flagged[i].severity>>,
                    flagged[i].severity, <<flagged[i].value>>)]

\* lines 345-372, for one trend
TrendFlagsOf(trend) ==
    LET detail == <<trend.change_pct_over_window, trend.slope_per_reading>>
        rising ==
            IF trend.direction = "rising" /\ trend.change_pct_over_window > 1000
            THEN IF trend.metric \in {"systolic_bp", "diastolic_bp"}
                 THEN <<RiskFlag(<<"trend_rising", trend.metric>>, "warning", detail)>>
                 ELSE IF trend.metric = "heart_rate" /\ trend.change_pct_over_window > 1500
                 THEN <<RiskFlag(<<"trend_rising", "heart_rate">>, "warning", detail)>>
                 ELSE <<>>
            ELSE <<>>
        falling ==
            IF /\ trend.direction = "falling"
               /\ trend.metric = "spo2"
               /\ trend.change_pct_over_window < -300
            THEN <<RiskFlag(<<"trend_falling", "spo2">>, "critical", detail)>>
            ELSE <<>>
    IN rising \o falling

RECURSIVE TrendFlags(_)
TrendFlags(trends) ==
    IF trends = <<>> THEN <<>> ELSE TrendFlagsOf(Head(trends)) \o TrendFlags(Tail(trends))

\* lines 375-384
ComboFlags(current_vitals) ==
    LET sys_bp == Get(current_vitals, "systolic_bp", 0)
        hr == Get(current_vitals, "heart_rate", 0)
    IN IF sys_bp > 1600 /\ hr > 1000
       THEN <<RiskFlag(<<"combo_hypertensive_tachycardia">>, "critical", <<sys_bp, hr>>)>>
       ELSE <<>>

\* lines 387-392
RECURSIVE UniqueFlags(_, _)
UniqueFlags(flags, seen) ==
    IF flags = <<>> THEN <<>>
    ELSE IF Head(flags).flag_id \in seen THEN UniqueFlags(Tail(flags), seen)
    ELSE <<Head(flags)>> \o UniqueFlags(Tail(flags), seen \cup {Head(flags).flag_id})

\* As generate_risk_flags, with the combination rule met at the bounds too.
generate_risk_flags_ComboAtBound(current_vitals, trends, threshold_results) ==
    UniqueFlags(ThresholdFlags(threshold_results) \o TrendFlags(trends)
                    \o (IF /\ Get(current_vitals, "systolic_bp", 0) >= 1600
                           /\ Get(current_vitals, "heart_rate", 0) >= 1000
                        THEN <<RiskFlag(<<"combo_hypertensive_tachycardia">>, "critical",
                                        <<Get(current_vitals, "systolic_bp", 0),
                                          Get(current_vitals, "heart_rate", 0)>>)>>
                        ELSE <<>>),
                {})

\* As generate_risk_flags, without the deduplication of lines 387-392.
generate_risk_flags_AllKept(current_vitals, trends, threshold_results) ==
    ThresholdFlags(threshold_results) \o TrendFlags(trends) \o ComboFlags(current_vitals)

generate_risk_flags(current_vitals, trends, threshold_results) ==
    UniqueFlags(ThresholdFlags(threshold_results) \o TrendFlags(trends)
                    \o ComboFlags(current_vitals),
                {})

\* The sequences of at most n values of a set.
SeqsUpTo(S, n) == UNION {[1..k -> S] : k \in 0..n}

(***************************************************************************)
(* The vitals functions called on their own (vitals_engine.py).  A call is *)
(* chosen at the start and one step applies the function to it.            *)
(***************************************************************************)
Metrics == DOMAIN THRESHOLDS

\* The values a metric is checked with: every tenth from Margin below its
\* lowest cut point to Margin above its highest.
ValuesOf(metric) ==
    (THRESHOLDS[metric].critical_low - Margin)..(THRESHOLDS[metric].critical_high + Margin)

\* check_threshold is called with a tracked metric or with one that is not.
ThresholdCalls ==
    UNION {{[fn |-> "check_threshold", arg |-> [metric |-> m, value |-> v],
             out |-> None, done |-> FALSE] : v \in ValuesOf(m)} : m \in Metrics}
    \cup {[fn |-> "check_threshold", arg |-> [metric |-> "glucose", value |-> v],
           out |-> None, done |-> FALSE] : v \in {900, 1000}}

\* Readings of a window: none, steady, rising by exactly and by more than
\* three percent, and the readings of the examples (in tenths).
TrendValues == {0, 700, 1000, 1030, 1040, 1200, 1300, 1450}

TrendCalls ==
    {[fn |-> "analyze_trend", arg |-> [metric |-> "systolic_bp", readings |-> rd],
      out |-> None, done |-> FALSE] : rd \in SeqsUpTo(TrendValues, MaxReadings)}

\* The history of the examples and of a steady patient, and one whose
\* z-score for 66 or 56 is exactly the threshold (60, 60, 60, 60, 65).
HistoryValues == {59, 60, 61, 62, 65}
NewValues == {56, 61, 62, 66, 100}

OutlierCalls ==
    {[fn |-> "detect_outlier", arg |-> [new_value |-> v, history |-> h],
      out |-> None, done |-> FALSE] :
        v \in NewValues, h \in SeqsUpTo(HistoryValues, MaxHistory)}

\* Current vitals: systolic pressure and heart rate, each absent, at the
\* bound of the combination rule (160, 100) or above it.
CurrentVitals ==
    {<<>>} \cup {[systolic_bp |-> b] : b \in {1600, 1650}}
           \cup {[heart_rate |-> h] : h \in {1000, 1050}}
           \cup {[systolic_bp |-> b, heart_rate |-> h] : b \in {1600, 1650}, h \in {1000, 1050}}

\* Threshold results: two warnings of one metric, a normal and a critical.
ResultSamples ==
    {check_threshold("systolic_bp", 1600), check_threshold("systolic_bp", 1650),
     check_threshold("heart_rate", 1050), check_threshold("spo2", 850)}

\* Trends: two rises of one metric, a rise of the heart rate, a fall of SpO2.
TrendSamples ==
    {analyze_trend("systolic_bp", <<1200, 1300, 1450>>),
     analyze_trend("systolic_bp", <<1000, 1200, 1300>>),
     analyze_trend("heart_rate", <<1000, 1040, 1200>>),
     analyze_trend("spo2", <<1000, 980, 950>>)}

FlagCalls ==
    {[fn |-> "generate_risk_flags",
      arg |-> [current_vitals |-> cv, trends |-> tds, threshold_results |-> trs],
      out |-> None, done |-> FALSE] :
        cv \in CurrentVitals, tds \in SeqsUpTo(TrendSamples, MaxResults),
        trs \in SeqsUpTo(ResultSamples, MaxResults)}

InitVitals ==
    /\ active = <<>>
    /\ ledger = <<>>
    /\ nextId = 1
    /\ events = <<>>
    /\ performed = <<>>
    /\ ret = [op |-> "none", tag |-> "none"]
    /\ pc = [t \in Threads |-> "idle"]
    /\ frame = [t \in Threads |-> NoFrame]
    /\ ticks = 0
    /\ store = <<>>
    /\ \/ calc \in ThresholdCalls
       \/ calc \in TrendCalls
       \/ calc \in OutlierCalls
       \/ calc \in FlagCalls

\* The call returns.
Returns(out) ==
    /\ ~calc.done
    /\ calc' = [calc EXCEPT !.out = out, !.done = TRUE]
    /\ UNCHANGED <<active, ledger, nextId, events, performed, ret, pc, frame, ticks, store>>

CheckThreshold ==
    /\ calc.fn = "check_threshold"
    /\ Returns(check_threshold(calc.arg.metric, calc.arg.value))

AnalyzeTrend ==
    /\ calc.fn = "analyze_trend"
    /\ Returns(analyze_trend(calc.arg.metric, calc.arg.readings))

DetectOutlier ==
    /\ calc.fn = "detect_outlier"
    /\ Returns(detect_outlier(calc.arg.new_value, calc.arg.history))

GenerateRiskFlags ==
    /\ calc.fn = "generate_risk_flags"
    /\ Returns(generate_risk_flags(calc.arg.current_vitals, calc.arg.trends,
                                   calc.arg.threshold_results))

NextVitals ==
    \/ CheckThreshold
    \/ AnalyzeTrend
    \/ DetectOutlier
    \/ GenerateRiskFlags

SpecVitals == InitVitals /\ [][NextVitals]_vars

(***************************************************************************)
(* Properties.                                                             *)
(***************************************************************************)
\* The events of patient p, among all ever created, whose status is in S.
EventsOf(p, S) ==
    {id \in DOMAIN events : events[id].patient_id = p /\ events[id].status \in S}

\* The EMERGENCY_TRIGGERED entries of logs that carry key.
TriggeredWithKey(logs, key) ==
    {i \in 1..Len(logs) : /\ logs[i].event_type = "EMERGENCY_TRIGGERED"
                          /\ logs[i].idempotency_key = key}

\* C1: with the calls handled one at a time, every patient has at most one
\* event in a non-terminal status, counting every event ever created and
\* not only the one the active table holds.
C1_AtMostOneNonTerminal ==
    \A p \in Patients : Cardinality(EventsOf(p, NonTerminalStatuses)) <= 1

\* A patient with an earlier event that ended and a later one that is live.
C1_Witness ==
    \E p \in Patients :
        /\ EventsOf(p, TerminalStatuses) # {}
        /\ EventsOf(p, NonTerminalStatuses) # {}

\* C2: trigger_emergency calls for one patient that interleave never create
\* two events: at most one event_id is created for the patient and at most
\* one EMERGENCY_TRIGGERED entry is appended for it.  (No call of
\* SpecConcurrent ends an event, so a second event of a patient is a second
\* live one.)
C2_ConcurrentTriggersCreateOne ==
    \A p \in Patients :
        /\ Cardinality(EventsOf(p, NonTerminalStatuses \cup TerminalStatuses)) <= 1
        /\ Cardinality({i \in 1..Len(ledger) :
                           /\ ledger[i].event_type = "EMERGENCY_TRIGGERED"
                           /\ ledger[i].patient_id = p}) <= 1

\* Two calls of trigger_emergency in a row from the present state, with the
\* same patient and key: the outcome of the first and of the second.
FirstTrigger(p, key) ==
    trigger_emergency(active, ledger, nextId, Stamp, p, "MANUAL_SOS", NoLocation, None, key)

SecondTrigger(p, key) ==
    LET o1 == FirstTrigger(p, key)
    IN trigger_emergency(o1.active, o1.ledger,
                         IF o1.tag = "created" THEN nextId + 1 ELSE nextId, Stamp,
                         p, "MANUAL_SOS", NoLocation, None, key)

\* C3 as claimed: two calls in a row with the same non-empty key return the
\* same event_id, the second is tagged a duplicate, the ledger holds exactly
\* one EMERGENCY_TRIGGERED entry with the key, and the second call changes
\* neither file.
C3_SameKeyTwice_Original ==
    \A p \in Patients, key \in KnownKeys \ {NoKey} :
        LET o1 == FirstTrigger(p, key)
            o2 == SecondTrigger(p, key)
        IN /\ o2.value.event_id = o1.value.event_id
           /\ o2.tag = "_duplicate"
           /\ Cardinality(TriggeredWithKey(o2.ledger, key)) = 1
           /\ o2.active = o1.active
           /\ o2.ledger = o1.ledger

\* C3 as amended: two calls in a row for the same patient with the same
\* non-empty key return the same event_id and the second changes neither
\* file; when the first created the event or was answered as a duplicate,
\* the second is tagged a duplicate and the ledger holds exactly one
\* EMERGENCY_TRIGGERED entry with the key; when the first was answered
\* "already active", so is the second, and the ledger holds no entry with
\* the key.
C3_SameKeyTwice ==
    \A p \in Patients, key \in KnownKeys \ {NoKey} :
        LET o1 == FirstTrigger(p, key)
            o2 == SecondTrigger(p, key)
        IN /\ o2.value.event_id = o1.value.event_id
           /\ o2.active = o1.active
           /\ o2.ledger = o1.ledger
           /\ o1.tag \in {"created", "_duplicate", "_already_active"}
           /\ o1.tag \in {"created", "_duplicate"} =>
                 /\ o2.tag = "_duplicate"
                 /\ Cardinality(TriggeredWithKey(o2.ledger, key)) = 1
           /\ o1.tag = "_already_active" =>
                 /\ o2.tag = "_already_active"
                 /\ TriggeredWithKey(o2.ledger, key) = {}

\* A trigger was answered as a duplicate of a logged client key.
C3_Witness ==
    /\ ret = [op |-> "trigger_emergency", tag |-> "_duplicate"]
    /\ \E key \in ClientKeys : TriggeredWithKey(ledger, key) # {}

\* C4: however long the sequence of calls, also past the point where the
\* ledger drops old entries, at most one event is ever created for an
\* idempotency_key that callers supply.
C4_OneEventPerKey ==
    \A key \in ClientKeys :
        Cardinality({id \in DOMAIN events : events[id].idempotency_key = key}) <= 1

\* C5: trigger_emergency for a patient whose event is PENDING_CONFIRMATION
\* or ESCALATED, with no key or a key no ledger entry carries, returns that
\* event tagged already active, creates no event, appends no audit entry
\* and leaves the active table as it is.
C5_AlreadyActiveIsNoOp ==
    \A p \in DOMAIN active, key \in KnownKeys, src \in TriggerSources,
       loc \in Locations, phone \in Phones :
        (/\ active[p].status \in NonTerminalStatuses
         /\ key = NoKey \/ TriggeredWithKey(ledger, key) = {})
        => LET out == trigger_emergency(active, ledger, nextId, Stamp, p, src, loc, phone, key)
           IN /\ out.tag = "_already_active"
              /\ out.value = Put(active[p], "_already_active", TRUE)
              /\ out.active = active
              /\ out.ledger = ledger

\* A trigger was answered "already active" and the event is still live.
C5_Witness ==
    /\ ret = [op |-> "trigger_emergency", tag |-> "_already_active"]
    /\ \E p \in DOMAIN active : active[p].status \in NonTerminalStatuses

\* C6: once an event is RESOLVED, CANCELLED or CARETAKER_OVERRIDE, no call
\* of escalate, cancel, resolve or override changes its status or its
\* resolved_by/resolved_at stamps, or appends an entry for its event_id.
C6_TerminalIsFinal ==
    [][\A p \in DOMAIN active :
          (/\ active[p].status \in TerminalStatuses
           /\ ret'.op \in {"escalate_emergency", "cancel_emergency",
                           "resolve_emergency", "caretaker_override"})
          => /\ active'[p].status = active[p].status
             /\ active'[p].resolved_by = active[p].resolved_by
             /\ active'[p].resolved_at = active[p].resolved_at
             /\ \/ ledger' = ledger
                \/ ledger'[Len(ledger')].event_id # active[p].event_id]_vars

\* escalate_emergency on an event that is not pending changes nothing.
EscalateIsNoOpUnlessPending ==
    \A p \in DOMAIN active, loc \in Locations, tw1 \in BOOLEAN, tw2 \in BOOLEAN :
        active[p].status # "PENDING_CONFIRMATION"
        => LET out == escalate_emergency(active, ledger, p, loc, tw1, tw2)
           IN /\ out.tag = "unchanged"
              /\ out.value = active[p]
              /\ out.sent = {}
              /\ out.active = active
              /\ out.ledger = ledger

\* No message or call went out twice for one event, and no event records
\* an action twice.
ActionsAtMostOnce ==
    /\ \A id \in DOMAIN performed : performed[id].again = {}
    /\ \A p \in DOMAIN active :
          \A i, j \in 1..Len(active[p].actions_taken) :
              active[p].actions_taken[i].action = active[p].actions_taken[j].action => i = j

\* C7: escalate_emergency on an event that is not PENDING_CONFIRMATION is a
\* no-op, and hence each escalation action is performed at most once per
\* event.
C7_EscalatesAtMostOnce == EscalateIsNoOpUnlessPending /\ ActionsAtMostOnce

\* The last four records of actions are the four actions, in order.
EndsWithFourActions(actions) ==
    /\ Len(actions) >= 4
    /\ \A i \in 1..4 : actions[Len(actions) - 4 + i].action = ActionNames[i]

\* What C8 asks of the outcome out of an escalation of the pending event of p.
CommitsFourActions(p, out) ==
    /\ out.tag = "escalated"
    /\ out.active[p].status = "ESCALATED"
    /\ Len(out.active[p].actions_taken) = Len(active[p].actions_taken) + 4
    /\ EndsWithFourActions(out.active[p].actions_taken)
    /\ out.ledger = _append_audit(ledger, out.ledger[Len(out.ledger)])
    /\ out.ledger[Len(out.ledger)].event_type = "EMERGENCY_ESCALATED"
    /\ out.ledger[Len(out.ledger)].event_id = active[p].event_id
    /\ out.ledger[Len(out.ledger)].actions = ActionNames

\* C8: escalate_emergency on a PENDING_CONFIRMATION event sets ESCALATED,
\* appends exactly the four action records in order and then one
\* EMERGENCY_ESCALATED entry that lists the four names in the same order.
C8_EscalationRecordsFour ==
    \A p \in DOMAIN active, loc \in Locations, tw1 \in BOOLEAN, tw2 \in BOOLEAN :
        active[p].status = "PENDING_CONFIRMATION"
        => CommitsFourActions(p, escalate_emergency(active, ledger, p, loc, tw1, tw2))

\* The same, of the escalations that do not raise.
EscalationRecordsFourUnlessRaised ==
    \A p \in DOMAIN active, loc \in Locations, tw1 \in BOOLEAN, tw2 \in BOOLEAN :
        LET out == escalate_emergency(active, ledger, p, loc, tw1, tw2)
        IN active[p].status = "PENDING_CONFIRMATION" /\ out.tag # "raised"
           => CommitsFourActions(p, out)

\* C9: whatever the outcomes of the notification, the voice dispatch and
\* the GPS share, with the phone missing and the location missing or
\* malformed, escalate_emergency on a PENDING_CONFIRMATION event raises no
\* error and commits ESCALATED with all four action records.
C9_EscalationNeverRaises ==
    \A p \in DOMAIN active, loc \in Locations, tw1 \in BOOLEAN, tw2 \in BOOLEAN :
        active[p].status = "PENDING_CONFIRMATION"
        => LET out == escalate_emergency(active, ledger, p, loc, tw1, tw2)
           IN /\ out.tag # "raised"
              /\ out.active[p].status = "ESCALATED"
              /\ Len(out.active[p].actions_taken) = 4

\* C10: every action record of every event carries a boolean success.
C10_EveryRecordHasSuccess ==
    \A p \in DOMAIN active :
        \A i \in 1..Len(active[p].actions_taken) :
            /\ "success" \in DOMAIN active[p].actions_taken[i]
            /\ active[p].actions_taken[i].success \in BOOLEAN

\* The call ended in the "no active emergency" error and changed no file.
FailsUnchanged(out) ==
    /\ out.tag = "ValueError"
    /\ out.active = active
    /\ out.ledger = ledger

\* C11: for a patient with no entry in the active table, escalate, cancel,
\* resolve and override each fail with the "no active emergency" error and
\* leave the active table and the ledger as they are.
C11_NoEventIsAnError ==
    \A p \in Callers \ DOMAIN active :
        /\ \A loc \in Locations, tw1 \in BOOLEAN, tw2 \in BOOLEAN :
              FailsUnchanged(escalate_emergency(active, ledger, p, loc, tw1, tw2))
        /\ \A by \in Actors \cup {"unknown"} :
              /\ FailsUnchanged(cancel_emergency(active, ledger, p, by))
              /\ FailsUnchanged(resolve_emergency(active, ledger, p, by))
              /\ FailsUnchanged(caretaker_override(active, ledger, p, by))

\* A lifecycle call failed for a patient without an event while another
\* patient has one and the ledger has entries.
C11_Witness ==
    /\ ret.tag = "ValueError"
    /\ active # <<>>
    /\ ledger # <<>>
    /\ Callers \ DOMAIN active # {}


\* The optional fields of a trigger request: all left out, or all given.
TriggerBodies ==
    {[location |-> NoLocation, caretaker_phone |-> None],
     [location |-> GoodLocation, caretaker_phone |-> "+911234567890"]}

\* C12: trigger_emergency with a key no ledger entry carries (or none), for
\* a patient without a non-terminal event, creates an event that is
\* PENDING_CONFIRMATION, has its confirmation_deadline exactly 30 seconds
\* after triggered_at, no actions, resolved_at and resolved_by unset and
\* the supplied key; the event is stored under the patient, the other
\* entries of the active table stay, and exactly one EMERGENCY_TRIGGERED
\* entry with its event_id is appended to the ledger.  The first conjunct
\* is about the event built at every clock reading, the second about the
\* call that builds it.
C12_NewEventIsPending ==
    /\ \A p \in Callers, key \in {NoKey} \cup ClientKeys, dt \in Instants,
          src \in TriggerSources, body \in TriggerBodies :
           \A new \in {NewEvent(nextId, _now_iso(dt), p, src, body.location,
                                 body.caretaker_phone, key)} :
              /\ new.event_id = nextId
              /\ new.patient_id = p
              /\ new.trigger_source = src
              /\ new.status = "PENDING_CONFIRMATION"
              /\ new.triggered_at = _now_iso(dt)
              /\ new.confirmation_deadline.suffix = "Z"
              /\ SecondsOf(new.confirmation_deadline) = SecondsOf(new.triggered_at) + 30
              /\ fromisoformat(new.confirmation_deadline.text).us = dt.us
              /\ new.location = body.location
              /\ new.caretaker_phone = body.caretaker_phone
              /\ new.actions_taken = <<>>
              /\ new.resolved_at = None
              /\ new.resolved_by = None
              /\ key # NoKey => new.idempotency_key = key
    /\ \A p \in Callers, key \in {NoKey} \cup ClientKeys :
          (/\ ~has_active_emergency(active, p)
           /\ key = NoKey \/ IdempotencyHit(ledger, key) = 0)
          => \A out \in {trigger_emergency(active, ledger, nextId, Stamp, p, "MANUAL_SOS",
                                            NoLocation, None, key)} :
                /\ out.tag = "created"
                /\ out.value = NewEvent(nextId, Stamp, p, "MANUAL_SOS", NoLocation, None, key)
                /\ out.active = Put(active, p, out.value)
                /\ out.ledger = LastN(Append(ledger, out.ledger[Len(out.ledger)]), AuditKeep)
                /\ out.ledger[Len(out.ledger)].event_type = "EMERGENCY_TRIGGERED"
                /\ Cardinality({i \in 1..Len(out.ledger) :
                                    out.ledger[i].event_id = out.value.event_id}) = 1

\* A trigger created the second event of a patient whose first had ended,
\* and the new event is stored with its deadline.
C12_Witness ==
    /\ ret = [op |-> "trigger_emergency", tag |-> "created"]
    /\ \E p \in DOMAIN active :
          /\ active[p].event_id > 1
          /\ active[p].status = "PENDING_CONFIRMATION"
          /\ SecondsOf(active[p].confirmation_deadline) = SecondsOf(active[p].triggered_at) + 30

\* The event types of the entries of logs, in order.
EventTypes(logs) == [i \in 1..Len(logs) |-> logs[i].event_type]

\* What C13 asks of the outcome o3 of the resolve that ends the sequence.
TriggeredEscalatedResolved(p, o3) ==
    /\ EventTypes(o3.ledger)
         = <<"EMERGENCY_TRIGGERED", "EMERGENCY_ESCALATED", "EMERGENCY_RESOLVED">>
    /\ \A i \in 1..Len(o3.ledger) : o3.ledger[i].event_id = o3.ledger[1].event_id
    /\ o3.ledger[2].actions = ActionNames
    /\ o3.active[p].status = "RESOLVED"
    /\ o3.active[p].event_id = o3.ledger[1].event_id
    /\ ~has_active_emergency(o3.active, p)

\* The step is the resolve that ends the sequence trigger, escalate, resolve
\* run from empty files: only the first event exists, the ledger holds what
\* the trigger and the escalation appended, the call before this one was
\* the escalation, ended as one of tags, and this one is the resolve.
ResolveEndsSequence(tags) ==
    /\ nextId = 2
    /\ EventTypes(ledger) \in {<<"EMERGENCY_TRIGGERED">>,
                               <<"EMERGENCY_TRIGGERED", "EMERGENCY_ESCALATED">>}
    /\ ret.op = "escalate_emergency"
    /\ ret.tag \in tags
    /\ ret' = [op |-> "resolve_emergency", tag |-> "ok"]

\* C13: from empty files, trigger, escalate, resolve for one patient leave
\* the ledger [EMERGENCY_TRIGGERED, EMERGENCY_ESCALATED, EMERGENCY_RESOLVED]
\* with one event_id, the escalation entry naming the four actions, the
\* event RESOLVED and has_active_emergency false.
C13_TriggerEscalateResolve ==
    [][ResolveEndsSequence({"escalated", "raised"})
       => \A p \in Patients :
             TriggeredEscalatedResolved(p, Outcome(active', ledger', "ok", <<>>, {}))]_vars

\* The same, of the sequences whose escalation does not raise.
TriggerEscalateResolveUnlessRaised ==
    [][ResolveEndsSequence({"escalated"})
       => \A p \in Patients :
             TriggeredEscalatedResolved(p, Outcome(active', ledger', "ok", <<>>, {}))]_vars

\* trigger, escalate, resolve were run from empty files and ended RESOLVED
\* with the escalation logged.
TriggerEscalateResolveRan ==
    /\ nextId = 2
    /\ ret = [op |-> "resolve_emergency", tag |-> "ok"]
    /\ \A p \in Patients :
          TriggeredEscalatedResolved(p, Outcome(active, ledger, "ok", <<>>, {}))

\* The step is the cancel that follows the trigger of the first event, with
\* no call in between.
CancelFollowsTrigger ==
    /\ nextId = 2
    /\ ret = [op |-> "trigger_emergency", tag |-> "created"]
    /\ ret' = [op |-> "cancel_emergency", tag |-> "ok"]

\* Trigger then cancel left [EMERGENCY_TRIGGERED, EMERGENCY_CANCELLED] and
\* the event of p CANCELLED with no action recorded or sent, and an
\* escalation called on the files act, logs is a no-op.
TriggeredCancelled(act, logs, perf, p) ==
    /\ EventTypes(logs) = <<"EMERGENCY_TRIGGERED", "EMERGENCY_CANCELLED">>
    /\ logs[1].event_id = logs[2].event_id
    /\ act[p].event_id = logs[1].event_id
    /\ act[p].status = "CANCELLED"
    /\ act[p].actions_taken = <<>>
    /\ perf[act[p].event_id] = NoActions
    /\ \A loc \in Locations, tw1 \in BOOLEAN, tw2 \in BOOLEAN :
          escalate_emergency(act, logs, p, loc, tw1, tw2)
              = Outcome(act, logs, "unchanged", act[p], {})

\* No call gives an event that has ended a further action: while the event
\* stays in the table its status stays terminal and its action records and
\* the actions sent for it stay as they are.
EndedEventGetsNoAction ==
    \A p \in DOMAIN active :
        (/\ active[p].status \in TerminalStatuses
         /\ active'[p].event_id = active[p].event_id)
        => /\ active'[p].status \in TerminalStatuses
           /\ active'[p].actions_taken = active[p].actions_taken
           /\ performed'[active[p].event_id] = performed[active[p].event_id]

\* C14: from empty files, trigger followed by cancel leaves the ledger
\* [EMERGENCY_TRIGGERED, EMERGENCY_CANCELLED] and the event CANCELLED with
\* no action recorded; no escalation action is performed for it then or
\* later, also when escalate is called afterwards.
C14_CancelBeforeEscalate ==
    [][/\ CancelFollowsTrigger
          => \A p \in Patients : TriggeredCancelled(active', ledger', performed', p)
       /\ EndedEventGetsNoAction]_vars

\* Escalate was called after trigger and cancel and changed nothing.
C14_Witness ==
    /\ ret = [op |-> "escalate_emergency", tag |-> "unchanged"]
    /\ \A p \in Patients : TriggeredCancelled(active, ledger, performed, p)

(***************************************************************************)
(* C15.  An event leaves PENDING_CONFIRMATION for ESCALATED only as the    *)
(* effect of an escalate_emergency call that reports the escalation: in no *)
(* step in which time passes, a reading is submitted, an emergency is      *)
(* triggered, cancelled or resolved, or the status is read, does a pending *)
(* event of the active table become ESCALATED.                             *)
(***************************************************************************)
BecomesEscalated(p) ==
    /\ p \in DOMAIN active
    /\ p \in DOMAIN active'
    /\ active[p].status = "PENDING_CONFIRMATION"
    /\ active'[p].status = "ESCALATED"

Recorded(event) == {event.actions_taken[i].action : i \in 1..Len(event.actions_taken)}

CrashLeavesEventRecoverable ==
    ret = [op |-> "escalate_emergency", tag |-> "crashed"]
    => \A p \in Patients :
          p \in DOMAIN active /\ active[p].status \in NonTerminalStatuses

PerformedActionsAreRecorded ==
    \A p \in DOMAIN active :
        active[p].status \in NonTerminalStatuses
        => performed[active[p].event_id].once \subseteq Recorded(active[p])

NoActionRepeated == \A id \in DOMAIN performed : performed[id].again = {}

C16_CrashSafeEscalation ==
    /\ CrashLeavesEventRecoverable
    /\ PerformedActionsAreRecorded
    /\ NoActionRepeated

(***************************************************************************)
(* C17.  The ledger is append-only and bounded: a call adds at most one    *)
(* entry, at the end, and leaves the entries it keeps as they were and in  *)
(* their order; the ledger never holds more than AuditKeep entries, and    *)
(* when it is full an append drops exactly the oldest one.  Hence after n  *)
(* appends the ledger is the last min(n, AuditKeep) entries appended, in   *)
(* append order.                                                           *)
(***************************************************************************)
AppendedOne(old, new) ==
    \/ /\ Len(old) < AuditKeep
       /\ Len(new) = Len(old) + 1
       /\ \A i \in 1..Len(old) : new[i] = old[i]
    \/ /\ Len(old) = AuditKeep
       /\ Len(new) = AuditKeep
       /\ \A i \in 1..(AuditKeep - 1) : new[i] = old[i + 1]

C17_LedgerAppendOnlyBounded ==
    [][/\ Len(ledger') <= AuditKeep
       /\ ledger' = ledger \/ AppendedOne(ledger, ledger')]_vars

\* The ledger is full and its oldest entry is no longer the first one ever
\* appended, which was an EMERGENCY_TRIGGERED entry: an append dropped it.
C17_Witness ==
    /\ Len(ledger) = AuditKeep
    /\ ledger[1].event_type # "EMERGENCY_TRIGGERED"
    /\ ret.tag = "ok"

(***************************************************************************)
(* C18.  With requests running concurrently no ledger append is lost:      *)
(* every event whose trigger_emergency call has returned has its           *)
(* EMERGENCY_TRIGGERED entry in the ledger.  (The runs append fewer        *)
(* entries than the ledger keeps.)                                         *)
(***************************************************************************)
\* The events whose creating call is still running.
InFlight == {frame[t].event.event_id : t \in {u \in Threads : pc[u] \in {"save", "audit", "append"}}}

C18_NoAppendLost ==
    \A id \in DOMAIN events :
        id \notin InFlight
        => \E i \in 1..Len(ledger) :
              /\ ledger[i].event_type = "EMERGENCY_TRIGGERED"
              /\ ledger[i].event_id = id

(***************************************************************************)
(* C19.  Requests of different patients do not disturb each other: once    *)
(* the event of a patient has been written to the active table, the table  *)
(* holds an event of that patient whatever the requests of other patients  *)
(* do, so that after concurrent triggers for two patients both have their  *)
(* event in the table.  (No call of SpecParallel removes an event.)        *)
(***************************************************************************)
C19_PatientsIndependent ==
    \A p \in Callers :
        EventsOf(p, NonTerminalStatuses \cup TerminalStatuses) # {} => p \in DOMAIN active

(***************************************************************************)
(* C20.  submit_vitals and the automatic trigger.                          *)
(***************************************************************************)
\* Some value of the reading is at or beyond a critical bound of its metric.
HasCritical(current) ==
    \E k \in DOMAIN current :
        \/ current[k] <= THRESHOLDS[k].critical_low
        \/ current[k] >= THRESHOLDS[k].critical_high

HasNonTerminal(p) == p \in DOMAIN active /\ active[p].status \in NonTerminalStatuses

\* The ledger holds an EMERGENCY_TRIGGERED entry made for the reading of
\* patient p with this timestamp.
AlreadyTriggered(p, timestamp) ==
    \E i \in 1..Len(ledger) :
        /\ ledger[i].event_type = "EMERGENCY_TRIGGERED"
        /\ ledger[i].idempotency_key = AutoKey(p, timestamp)

\* The submission persisted exactly one new event, a pending one with
\* source VITALS_CRITICAL, for p, and reports it.
CreatesOneEvent(p, out) ==
    /\ out.auto_emergency_triggered
    /\ out.active = Put(active, p, out.active[p])
    /\ out.active[p].event_id = nextId
    /\ out.active[p].patient_id = p
    /\ out.active[p].trigger_source = "VITALS_CRITICAL"
    /\ out.active[p].status = "PENDING_CONFIRMATION"
    /\ out.emergency_event = out.active[p]
    /\ AppendedOne(ledger, out.ledger)
    /\ out.ledger[Len(out.ledger)].event_type = "EMERGENCY_TRIGGERED"
    /\ out.ledger[Len(out.ledger)].event_id = nextId

CreatesNoEvent(out) == out.active = active /\ out.ledger = ledger

SubmissionNow(p, timestamp, current) ==
    submit_vitals(active, ledger, store, nextId, _now_iso(Now), p, timestamp, current)

\* C20 as stated: a reading with a critical value for a patient with no
\* non-terminal emergency creates exactly one pending VITALS_CRITICAL event
\* and reports auto_emergency_triggered = true; any other reading creates
\* no event and reports false.
C20_CriticalReadingTriggers ==
    \A p \in Patients, timestamp \in ReadingStamps, current \in Readings \ {<<>>} :
        LET out == SubmissionNow(p, timestamp, current)
        IN IF HasCritical(current) /\ ~HasNonTerminal(p)
           THEN CreatesOneEvent(p, out)
           ELSE CreatesNoEvent(out) /\ ~out.auto_emergency_triggered

\* C20, amended: the event is created unless the ledger already holds the
\* EMERGENCY_TRIGGERED entry of a reading of the patient with the same
\* timestamp; such a replay creates no event, changes neither file and
\* still reports auto_emergency_triggered = true, with that entry.
C20_CriticalReadingTriggersOnce ==
    \A p \in Patients, timestamp \in ReadingStamps, current \in Readings \ {<<>>} :
        LET out == SubmissionNow(p, timestamp, current)
        IN IF HasCritical(current) /\ ~HasNonTerminal(p)
           THEN IF AlreadyTriggered(p, timestamp)
                THEN /\ CreatesNoEvent(out)
                     /\ out.auto_emergency_triggered
                     /\ out.emergency_event.event_type = "EMERGENCY_TRIGGERED"
                     /\ out.emergency_event.idempotency_key = AutoKey(p, timestamp)
                ELSE CreatesOneEvent(p, out)
           ELSE CreatesNoEvent(out) /\ ~out.auto_emergency_triggered

\* A critical reading was replayed after the event it had triggered ended:
\* the submission reported a trigger and the patient has one event, ended.
C20_Witness ==
    /\ ret = [op |-> "submit_vitals", tag |-> "_duplicate"]
    /\ ~HasNonTerminal("pA")
    /\ Cardinality(DOMAIN events) = 1
    /\ AlreadyTriggered("pA", 1)

(***************************************************************************)
(* C21.  check_threshold("spo2", 85) is critical with auto_emergency, and  *)
(* check_threshold("spo2", 94) is a warning.                               *)
(***************************************************************************)
Checked(metric, value) ==
    /\ calc.fn = "check_threshold"
    /\ calc.done
    /\ calc.arg = [metric |-> metric, value |-> value]

C21_SpO2Examples ==
    /\ Checked("spo2", 850) => calc.out.severity = "critical" /\ calc.out.auto_emergency
    /\ Checked("spo2", 940) => calc.out.severity = "warning"

(***************************************************************************)
(* C22.  For a tracked metric check_threshold classifies a value by the    *)
(* first of these that holds: at or below critical_low, critical; at or    *)
(* below warning_low, warning; at or above critical_high, critical; at or  *)
(* above warning_high, warning; otherwise normal.  auto_emergency is set   *)
(* exactly for critical.  The result is absent exactly for a metric that   *)
(* is not tracked.  The cut points of every metric are in order.           *)
(***************************************************************************)
\* The severity the rule of C22 gives, region by region.
RuleSeverity(t, v) ==
    IF v <= t.critical_low \/ (v > t.warning_low /\ v >= t.critical_high) THEN "critical"
    ELSE IF v <= t.warning_low \/ v >= t.warning_high THEN "warning"
    ELSE "normal"

BandsOrdered ==
    \A m \in Metrics :
        /\ THRESHOLDS[m].critical_low <= THRESHOLDS[m].warning_low
        /\ THRESHOLDS[m].warning_low <= THRESHOLDS[m].normal_low
        /\ THRESHOLDS[m].normal_low <= THRESHOLDS[m].normal_high
        /\ THRESHOLDS[m].normal_high <= THRESHOLDS[m].warning_high
        /\ THRESHOLDS[m].warning_high <= THRESHOLDS[m].critical_high

C22_FirstMatchClassification ==
    /\ BandsOrdered
    /\ Metrics = {VITAL_KEYS[i] : i \in 1..6}
    /\ (calc.fn = "check_threshold" /\ calc.done)
       => IF calc.arg.metric \in Metrics
          THEN /\ DOMAIN calc.out = {"metric", "value", "severity", "auto_emergency"}
               /\ calc.out.metric = calc.arg.metric
               /\ calc.out.value = calc.arg.value
               /\ calc.out.severity = RuleSeverity(THRESHOLDS[calc.arg.metric], calc.arg.value)
               /\ calc.out.auto_emergency <=> calc.out.severity = "critical"
          ELSE calc.out = None

\* A value at a cut point of each kind has been classified.
C22_Witness ==
    /\ calc.fn = "check_threshold"
    /\ calc.done
    /\ calc.arg.metric = "heart_rate"
    /\ calc.arg.value = THRESHOLDS["heart_rate"].warning_high
    /\ calc.out.severity = "warning"

(***************************************************************************)
(* C30.  A value inside the normal band of its metric, from normal_low to  *)
(* normal_high, is classified normal with auto_emergency false.            *)
(***************************************************************************)
C30_NormalBandIsNormal ==
    (/\ calc.fn = "check_threshold"
     /\ calc.done
     /\ calc.arg.metric \in Metrics
     /\ calc.arg.value >= THRESHOLDS[calc.arg.metric].normal_low
     /\ calc.arg.value <= THRESHOLDS[calc.arg.metric].normal_high)
    => calc.out.severity = "normal" /\ ~calc.out.auto_emergency

(***************************************************************************)
(* C25.  analyze_trend gives insufficient_data for fewer than 3 readings.  *)
(* Otherwise it gives stable when the change from the first to the last    *)
(* reading is at most 3 percent of the first in size (or the first is 0),  *)
(* else rising when the least-squares slope over the indices is positive,  *)
(* else falling.  [70,70,70] is stable with change 0; [120,130,145] is     *)
(* rising with a change of about 20.8 percent.                             *)
(***************************************************************************)
\* The sign of the least-squares slope of y over the indices 0..n-1 is that
\* of the sum of (x - mean of x) * y, here multiplied by n.
SlopePositive(y) ==
    SumSeq([i \in 1..Len(y) |->
               (Len(y) * (i - 1) - SumSeq([j \in 1..Len(y) |-> j - 1])) * y[i]]) > 0

ChangeWithin3Pct(y) ==
    \/ y[1] = 0
    \/ 100 * Abs(y[Len(y)] - y[1]) <= 3 * Abs(y[1])

C25_TrendDirection ==
    (calc.fn = "analyze_trend" /\ calc.done)
    => LET y == calc.arg.readings
       IN /\ Len(y) < 3 => calc.out.direction = "insufficient_data"
          /\ Len(y) >= 3 =>
                calc.out.direction = IF ChangeWithin3Pct(y) THEN "stable"
                                     ELSE IF SlopePositive(y) THEN "rising"
                                     ELSE "falling"
          /\ y = <<700, 700, 700>> => calc.out.change_pct_over_window = 0
          /\ y = <<1200, 1300, 1450>> =>
                /\ calc.out.direction = "rising"
                /\ calc.out.change_pct_over_window \in 2075..2085

\* A window whose last reading is above the first by more than 3 percent
\* and whose slope is not positive has been analysed: it is falling.
C25_Witness ==
    /\ calc.fn = "analyze_trend"
    /\ calc.done
    /\ Len(calc.arg.readings) >= 3
    /\ ~ChangeWithin3Pct(calc.arg.readings)
    /\ calc.arg.readings[Len(calc.arg.readings)] > calc.arg.readings[1]
    /\ calc.out.direction = "falling"

(***************************************************************************)
(* C26.  detect_outlier never flags a value against fewer than 5 readings. *)
(* With 5 or more it flags the value exactly when its distance from the    *)
(* mean is at least 2.5 standard deviations, or, when the readings are all *)
(* equal, exactly when the distance is more than 1.  100 against           *)
(* [60,62,61,59,60] is an outlier with a positive z-score; 61 is not.      *)
(***************************************************************************)
\* n^3 times the variance, from the distances to the mean.
CentredSquares(h) ==
    SumSeq([i \in 1..Len(h) |-> (Len(h) * h[i] - SumSeq(h)) * (Len(h) * h[i] - SumSeq(h))])

\* abs(v - mean) >= 2.5 * sigma, squared and cleared of fractions.
AtLeastThreshold(v, h) ==
    4 * Len(h) * (Len(h) * v - SumSeq(h)) * (Len(h) * v - SumSeq(h)) >= 25 * CentredSquares(h)

C26_OutlierRule ==
    (calc.fn = "detect_outlier" /\ calc.done)
    => LET v == calc.arg.new_value
           h == calc.arg.history
       IN /\ Len(h) < 5 => ~calc.out.is_outlier
          /\ (Len(h) >= 5 /\ CentredSquares(h) > 0)
             => (calc.out.is_outlier <=> AtLeastThreshold(v, h))
          /\ (Len(h) >= 5 /\ CentredSquares(h) = 0)
             => (calc.out.is_outlier <=> Abs(v - h[1]) > 1)
          /\ h = <<60, 62, 61, 59, 60>> /\ v = 100
             => calc.out.is_outlier /\ calc.out.z_score.num > 0
          /\ h = <<60, 62, 61, 59, 60>> /\ v = 61 => ~calc.out.is_outlier

\* A value exactly 2.5 standard deviations above the mean has been flagged.
C26_Witness ==
    /\ calc.fn = "detect_outlier"
    /\ calc.done
    /\ calc.arg = [new_value |-> 66, history |-> <<60, 60, 60, 60, 65>>]
    /\ calc.out.is_outlier

(***************************************************************************)
(* C23.  generate_risk_flags returns the flag                              *)
(* combo_hypertensive_tachycardia, with severity critical, exactly when    *)
(* the current vitals hold a systolic_bp above 160 and a heart_rate above  *)
(* 100: for {systolic_bp: 165, heart_rate: 105} with no trend, and never   *)
(* when one of the two is missing or at or below its bound.                *)
(***************************************************************************)
ComboId == <<"combo_hypertensive_tachycardia">>

FlagsCalled == calc.fn = "generate_risk_flags" /\ calc.done

HypertensiveTachycardia(cv) ==
    /\ {"systolic_bp", "heart_rate"} \subseteq DOMAIN cv
    /\ cv.systolic_bp > 1600
    /\ cv.heart_rate > 1000

C23_ComboFlag ==
    FlagsCalled
    => /\ (\E i \in 1..Len(calc.out) : calc.out[i].flag_id = ComboId)
          <=> HypertensiveTachycardia(calc.arg.current_vitals)
       /\ \A i \in 1..Len(calc.out) :
             calc.out[i].flag_id = ComboId => calc.out[i].severity = "critical"

\* The example of the claim has been computed and holds the flag.
C23_Witness ==
    /\ FlagsCalled
    /\ calc.arg.current_vitals = [systolic_bp |-> 1650, heart_rate |-> 1050]
    /\ calc.arg.trends = <<>>
    /\ \E i \in 1..Len(calc.out) : calc.out[i].flag_id = ComboId

(***************************************************************************)
(* C24.  The flags generate_risk_flags returns have pairwise distinct      *)
(* flag_ids; for each flag_id the flag returned is the first one produced  *)
(* in rule order (threshold flags, trend flags, combination flag); every   *)
(* threshold result of severity warning or critical has its flag           *)
(* threshold_{metric}_{severity}, and no flag is keyed with severity       *)
(* normal.                                                                 *)
(***************************************************************************)
\* The flags in the order the rules produce them.
Produced ==
    ThresholdFlags(calc.arg.threshold_results) \o TrendFlags(calc.arg.trends)
        \o ComboFlags(calc.arg.current_vitals)

C24_FlagsUniqueFirstWins ==
    FlagsCalled
    => /\ \A i, j \in 1..Len(calc.out) :
             calc.out[i].flag_id = calc.out[j].flag_id => i = j
       /\ \A i \in 1..Len(calc.out) :
             \E k \in 1..Len(Produced) :
                 /\ Produced[k] = calc.out[i]
                 /\ \A l \in 1..(k - 1) : Produced[l].flag_id # calc.out[i].flag_id
       /\ \A k \in 1..Len(Produced) :
             \E i \in 1..Len(calc.out) : calc.out[i].flag_id = Produced[k].flag_id
       /\ \A n \in 1..Len(calc.arg.threshold_results) :
             LET tr == calc.arg.threshold_results[n]
             IN tr.severity \in {"warning", "critical"}
                => \E i \in 1..Len(calc.out) :
                      calc.out[i].flag_id = <<"threshold", tr.metric, tr.severity>>
       /\ \A i \in 1..Len(calc.out) :
             Len(calc.out[i].flag_id) = 3 => calc.out[i].flag_id[3] # "normal"

\* Two threshold results with one flag_id and different values were given:
\* the flag of the first is returned, once.
C24_Witness ==
    /\ FlagsCalled
    /\ calc.arg.threshold_results
           = <<check_threshold("systolic_bp", 1650), check_threshold("systolic_bp", 1600)>>
    /\ Len(calc.out) >= 1
    /\ calc.out[1].detail = <<1650>>
    /\ \A i \in 2..Len(calc.out) : calc.out[i].flag_id # calc.out[1].flag_id

(***************************************************************************)
(* C27.  get_audit_log(patient_id, limit) returns, for every limit >= 0,   *)
(* at most limit entries: the last min(limit, k) of the k ledger entries   *)
(* of the patient (of all entries when no patient is given), in append     *)
(* order, and no entry of another patient.                                 *)
(***************************************************************************)
\* The ledger entries a call for patient_id is about.
EntriesOf(patient_id) ==
    IF patient_id = None THEN ledger
    ELSE SelectSeq(ledger, LAMBDA e : e.patient_id = patient_id)

C27_AuditLogLimit ==
    \A patient_id \in {None} \cup Callers, limit \in 0..(AuditKeep + 1) :
        LET out == get_audit_log(ledger, patient_id, limit)
            all == EntriesOf(patient_id)
            kept == IF limit < Len(all) THEN limit ELSE Len(all)
        IN /\ Len(out) <= limit
           /\ out = SubSeq(all, Len(all) - kept + 1, Len(all))
           /\ patient_id # None => \A i \in 1..Len(out) : out[i].patient_id = patient_id

(***************************************************************************)
(* C28.  trigger_emergency returns a record of the patient it was called   *)
(* for, whatever key it is given: also a key, or the event_id of a keyless *)
(* event, first used in a trigger for another patient.  A trigger is never *)
(* suppressed because of a key logged for another patient.                 *)
(***************************************************************************)
C28_ReturnsCallersEvent ==
    \A p \in Callers, key \in KnownKeys :
        LET out == trigger_emergency(active, ledger, nextId, Stamp, p, "MANUAL_SOS",
                                     NoLocation, None, key)
        IN /\ out.value.patient_id = p
           /\ out.tag = "_duplicate" => ledger[IdempotencyHit(ledger, key)].patient_id = p

(***************************************************************************)
(* C29.  With calls handled one at a time the active table and the ledger  *)
(* agree: for every patient in the active table the most recent ledger     *)
(* entry with the event_id of the patient's event has the event_type of    *)
(* the event's status, and every step that changes the status of a         *)
(* patient's event, or gives the patient an event, appends exactly one     *)
(* ledger entry, of that event and of that type.                           *)
(***************************************************************************)
EntryTypeOf ==
    [PENDING_CONFIRMATION |-> "EMERGENCY_TRIGGERED",
     ESCALATED |-> "EMERGENCY_ESCALATED",
     RESOLVED |-> "EMERGENCY_RESOLVED",
     CANCELLED |-> "EMERGENCY_CANCELLED",
     CARETAKER_OVERRIDE |-> "CARETAKER_OVERRIDE"]

\* The positions of the ledger entries of an event.
EntriesOfEvent(logs, id) == {i \in 1..Len(logs) : logs[i].event_id = id}

TableAgreesWithLedger(act, logs) ==
    \A p \in DOMAIN act :
        \A i \in EntriesOfEvent(logs, act[p].event_id) :
            (\A j \in EntriesOfEvent(logs, act[p].event_id) : j <= i)
            => logs[i].event_type = EntryTypeOf[act[p].status]

StatusChanged(p) ==
    /\ p \in DOMAIN active'
    /\ \/ p \notin DOMAIN active
       \/ active'[p].event_id # active[p].event_id
       \/ active'[p].status # active[p].status

====
